---------------------------- MODULE Spec2Model ----------------------------
(***************************************************************************)
(* Model of the balloon ingestion pipeline: parseRow, fetchHour and the    *)
(* two versions of the useWindborne hook (the progressive one, built on    *)
(* per-slot then/catch/finally, and the batch one, built on Promise.all).  *)
(*                                                                         *)
(* JavaScript arrays are 0-based; the sequences below are 1-based, so the  *)
(* slot with JavaScript index idx is element idx + 1.  Numbers are         *)
(* integers: the code only compares them and passes them on.               *)
(***************************************************************************)
EXTENDS Integers, Sequences, FiniteSets, TLC

\* Number of hourly snapshots of the model (HOURS.length, 24 in the source).
NumHours == 3

\* Effect runs on one component instance.  The effect has the dependency
\* list [], so it runs once per mount; React's StrictMode runs it a second
\* time (effect, cleanup, effect) on the same state.
Cycles == 1..2

Slots == 1..NumHours

-----------------------------------------------------------------------------
(* JavaScript values: a type tag, a number (or string id) and the elements *)
(* of an array.                                                            *)

Num(n) == [t |-> "number", v |-> n, a |-> <<>>]
Str(s) == [t |-> "string", v |-> s, a |-> <<>>]
Null == [t |-> "null", v |-> 0, a |-> <<>>]
Undefined == [t |-> "undefined", v |-> 0, a |-> <<>>]
Arr(s) == [t |-> "array", v |-> 0, a |-> s]
\* An object with a `points` field holding p; PlainObj has no such field.
ObjPoints(p) == [t |-> "object", v |-> 1, a |-> <<p>>]
PlainObj == [t |-> "object", v |-> 0, a |-> <<>>]

\* Array.isArray(x)
IsArray(x) == x.t = "array"

\* typeof x === "number"
IsNumber(x) == x.t = "number"

\* row[k] with JavaScript index k: undefined past the end
At(row, k) == IF k + 1 <= Len(row.a) THEN row.a[k + 1] ELSE Undefined

\* The rejection of parseRow (null)
Rejected == [ok |-> FALSE, lat |-> 0, lon |-> 0, alt_km |-> Null]

Point(lat, lon, alt_km) == [ok |-> TRUE, lat |-> lat, lon |-> lon, alt_km |-> alt_km]

\* parseRow clamping lat and lon into their ranges instead of rejecting
ParseRowClamp(row) ==
    IF ~IsArray(row) \/ Len(row.a) < 2 THEN Rejected
    ELSE LET lat == At(row, 0)
             lon == At(row, 1)
             alt == At(row, 2)
             clamp(n, min, max) == IF n < min THEN min ELSE IF n > max THEN max ELSE n
         IN  IF ~IsNumber(lat) \/ ~IsNumber(lon) THEN Rejected
             ELSE Point(clamp(lat.v, -90, 90), clamp(lon.v, -180, 180),
                        IF IsNumber(alt) /\ alt.v >= 0 /\ alt.v <= 40
                        THEN alt ELSE Null)

\* parseRow rejecting the row for a third element that is no altitude
ParseRowStrictAlt(row) ==
    IF ~IsArray(row) \/ Len(row.a) < 2 THEN Rejected
    ELSE LET lat == At(row, 0)
             lon == At(row, 1)
             alt == At(row, 2)
         IN  IF ~IsNumber(lat) \/ ~IsNumber(lon) THEN Rejected
             ELSE IF lat.v < -90 \/ lat.v > 90 \/ lon.v < -180 \/ lon.v > 180
                  THEN Rejected
                  ELSE IF IsNumber(alt) /\ alt.v >= 0 /\ alt.v <= 40
                       THEN Point(lat.v, lon.v, alt)
                       ELSE IF alt = Undefined THEN Point(lat.v, lon.v, Null)
                            ELSE Rejected

\* parseRow reading the row as [lon, lat, alt]
ParseRowSwapped(row) ==
    IF ~IsArray(row) \/ Len(row.a) < 2 THEN Rejected
    ELSE LET lon == At(row, 0)
             lat == At(row, 1)
             alt == At(row, 2)
         IN  IF ~IsNumber(lat) \/ ~IsNumber(lon) THEN Rejected
             ELSE IF lat.v < -90 \/ lat.v > 90 \/ lon.v < -180 \/ lon.v > 180
                  THEN Rejected
                  ELSE Point(lat.v, lon.v,
                             IF IsNumber(alt) /\ alt.v >= 0 /\ alt.v <= 40
                             THEN alt ELSE Null)

\* parseRow without the range check of lat and lon
ParseRowNoRange(row) ==
    IF ~IsArray(row) \/ Len(row.a) < 2 THEN Rejected
    ELSE LET lat == At(row, 0)
             lon == At(row, 1)
             alt == At(row, 2)
         IN  IF ~IsNumber(lat) \/ ~IsNumber(lon) THEN Rejected
             ELSE Point(lat.v, lon.v,
                        IF IsNumber(alt) /\ alt.v >= 0 /\ alt.v <= 40
                        THEN alt ELSE Null)

\* parseRow(row): a Point, or Rejected for null
ParseRow(row) ==
    IF ~IsArray(row) \/ Len(row.a) < 2 THEN Rejected
    ELSE LET lat == At(row, 0)
             lon == At(row, 1)
             alt == At(row, 2)
         IN  IF ~IsNumber(lat) \/ ~IsNumber(lon) THEN Rejected
             ELSE IF lat.v < -90 \/ lat.v > 90 \/ lon.v < -180 \/ lon.v > 180
                  THEN Rejected
                  ELSE Point(lat.v, lon.v,
                             IF IsNumber(alt) /\ alt.v >= 0 /\ alt.v <= 40
                             THEN alt ELSE Null)

\* rows.map(f): f applied to every element, in order
RECURSIVE MapParseRow(_)
MapParseRow(rows) ==
    IF rows = <<>> THEN <<>>
    ELSE <<ParseRow(Head(rows))>> \o MapParseRow(Tail(rows))

\* xs.filter(Boolean): the non-null results, in order
RECURSIVE FilterBoolean(_)
FilterBoolean(xs) ==
    IF xs = <<>> THEN <<>>
    ELSE IF Head(xs).ok THEN <<Head(xs)>> \o FilterBoolean(Tail(xs))
         ELSE FilterBoolean(Tail(xs))

-----------------------------------------------------------------------------
(* HOURS and fetchHour                                                     *)

\* n.toString(): the decimal digits of n >= 0
RECURSIVE ToDigits(_)
ToDigits(n) == IF n < 10 THEN <<n>> ELSE ToDigits(n \div 10) \o <<n % 10>>

\* s.padStart(2, "0")
PadStart2(s) == IF Len(s) >= 2 THEN s ELSE <<0>> \o s

\* HOURS[idx] for the slot idx + 1
HOURS == [s \in Slots |-> PadStart2(ToDigits(s - 1))]

NoErr == [kind |-> "none", hh |-> <<>>, status |-> 0]

\* What the network gives for one request: fetch() rejects (net = FALSE), or
\* a response with a status and a body that is JSON (json = TRUE, decoding to
\* data) or not.
Response(net, status, json, data) ==
    [net |-> net, status |-> status, json |-> json, data |-> data]

\* res.ok
ResOk(res) == res.status >= 200 /\ res.status <= 299

\* The outcome of fetchHour: resolved with points, or rejected with err
Resolved(points) == [ok |-> TRUE, points |-> points, err |-> NoErr]
Thrown(kind, hh, status) ==
    [ok |-> FALSE, points |-> <<>>, err |-> [kind |-> kind, hh |-> hh, status |-> status]]

\* fetchHour without the test of res.ok
FetchHourNoStatusCheck(hh, res) ==
    IF ~res.net THEN Thrown("network", <<>>, 0)
    ELSE IF ~res.json THEN Thrown("decode", <<>>, 0)
    ELSE LET data == res.data
             rows == IF IsArray(data) THEN data.a
                     ELSE IF data.t = "object" /\ data.v = 1 /\ IsArray(data.a[1])
                          THEN data.a[1].a
                          ELSE <<>>
         IN  Resolved(FilterBoolean(MapParseRow(rows)))

\* fetchHour(hh) when the network answers res
FetchHour(hh, res) ==
    IF ~res.net THEN Thrown("network", <<>>, 0)
    ELSE IF ~ResOk(res) THEN Thrown("http", hh, res.status)
    ELSE IF ~res.json THEN Thrown("decode", <<>>, 0)
    ELSE LET data == res.data
             rows == IF IsArray(data) THEN data.a
                     ELSE IF data.t = "object" /\ data.v = 1 /\ IsArray(data.a[1])
                          THEN data.a[1].a
                          ELSE <<>>
         IN  Resolved(FilterBoolean(MapParseRow(rows)))

\* Raw rows the snapshots of the model are made of
Row(lat, lon, alt) == Arr(<<lat, lon, alt>>)

RowsA ==
    << Row(Num(45), Num(-122), Num(5)),
       Arr(<<Str(1), Num(-122)>>),
       Arr(<<Num(200), Num(0)>>),
       Row(Num(45), Num(-122), Num(99)) >>

RowsB ==
    << Row(Num(-90), Num(180), Num(0)),
       Row(Num(91), Num(0), Num(1)),
       Num(7),
       Arr(<<Num(10)>>),
       Row(Num(0), Num(-181), Num(40)),
       Row(Num(-91), Num(0), Num(1)),
       Row(Num(0), Num(181), Num(1)),
       Row(Num(90), Num(-180), Num(-1)),
       Row(Num(1), Num(2), Str(2)),
       Null >>

\* The answers of the network to one request
Responses ==
    { Response(FALSE, 0, FALSE, Null),
      Response(TRUE, 500, TRUE, Arr(RowsA)),
      Response(TRUE, 200, FALSE, Null),
      Response(TRUE, 200, TRUE, Arr(RowsA)),
      Response(TRUE, 200, TRUE, ObjPoints(Arr(RowsB))),
      Response(TRUE, 200, TRUE, ObjPoints(Num(3))),
      Response(TRUE, 200, TRUE, PlainObj) }

-----------------------------------------------------------------------------
(* State of the parts checked on their own: parseRow on one raw record,    *)
(* fetchHour on one answer of the network, the two proxy handlers on one   *)
(* request, and the wind query of the selected point.                      *)

VARIABLES
    parsePc,    \* "idle", "input" (raw chosen), "parsed" or "reparsed"
    raw,        \* the raw record handed to parseRow
    point,      \* parseRow(raw)
    again       \* parseRow applied once more: to point itself (how = "self")
                \* or to the row rebuilt from point (how = "row")

parseVars == <<parsePc, raw, point, again>>

VARIABLES
    fhPc,       \* "idle", "called" (fetchHour awaits the network) or "settled"
    fhSlot,     \* the slot whose hour fetchHour is called with
    fhRes,      \* the answer of the network
    fhOut       \* what fetchHour settled with

fetchVars == <<fhPc, fhSlot, fhRes, fhOut>>

VARIABLES
    pxReq,      \* the request handed to the two proxy handlers
    pxUp,       \* what the upstream host does with a forwarded request
    pxA,        \* the path-based handler: position, response, upstream calls
    pxB         \* the query-based handler: position, response, upstream calls

proxyVars == <<pxReq, pxUp, pxA, pxB>>

VARIABLES
    selected,   \* useState: the selected point ("null" before the first click)
    wx,         \* useState: the wind data shown, with the point it was asked for
    wxLoading,  \* useState: wxLoading
    wxErr,      \* useState: wxErr
    wq,         \* the runs of the wind effect, oldest first: point, position
                \* of the query, the run's `cancelled`
    mounted     \* the App component is mounted

windVars == <<selected, wx, wxLoading, wxErr, wq, mounted>>

VARIABLES
    heap,       \* the outer arrays byHour has ever referred to, by identity
    cur,        \* the array the byHour state refers to
    held,       \* the array the rendering layer got at its last render
    applied     \* the slots whose then handler has run

cowVars == <<heap, cur, held, applied>>

VARIABLES
    effectDue   \* a render with a new `selected` is committed and the effect
                \* of [selected] has not run yet

panelVars == <<effectDue>>

\* The state outside the useWindborne hook
outside == <<parseVars, fetchVars, proxyVars, windVars, cowVars, panelVars>>

-----------------------------------------------------------------------------
(* parseRow on its own                                                     *)

\* Elements of a raw record: numbers around every limit of parseRow, and
\* values that are not numbers
Bool(b) == [t |-> "boolean", v |-> b, a |-> <<>>]

NumberSamples == {-1000000, -181, -180, -91, -90, -1, 0, 40, 41, 90, 91, 180, 181}

Elements ==
    {Num(n) : n \in NumberSamples} \cup {Str(1), Null, Bool(1), Arr(<<>>)}

\* Longest raw record of the model
MaxRowLen == 3

\* The raw records: arrays of up to MaxRowLen elements, and values that are
\* not arrays
RawRecords ==
    {Arr(r) : r \in UNION {[1..n -> Elements] : n \in 0..MaxRowLen}}
        \cup {Num(7), Str(1), Null, PlainObj}

\* A Point as a JavaScript value: an object { lat, lon, alt_km }
AsValue(p) == [t |-> "object", v |-> 2, a |-> <<Num(p.lat), Num(p.lon), p.alt_km>>]

\* The row [lat, lon, alt_km] rebuilt from a Point
AsRow(p) == Arr(<<Num(p.lat), Num(p.lon), p.alt_km>>)

NotAgain == [how |-> "none", res |-> Rejected]

\* What the variables of a part hold while that part does not run
NotRunning == "idle"

ParseIdle ==
    /\ parsePc = NotRunning
    /\ raw = NotRunning
    /\ point = NotRunning
    /\ again = NotRunning

\* parseRow(raw)
ParseStep ==
    /\ parsePc = "input"
    /\ parsePc' = "parsed"
    /\ point' = ParseRow(raw)
    /\ UNCHANGED <<raw, again>>

\* parseRow on what parseRow accepted
ReparseStep ==
    /\ parsePc = "parsed"
    /\ point.ok
    /\ parsePc' = "reparsed"
    /\ \E how \in {"self", "row"} :
          again' = [how |-> how,
                    res |-> ParseRow(IF how = "self" THEN AsValue(point)
                                     ELSE AsRow(point))]
    /\ UNCHANGED <<raw, point>>

-----------------------------------------------------------------------------
(* fetchHour on its own                                                    *)

\* Status codes around the limits of res.ok
Statuses == {199, 200, 204, 299, 300, 404, 500}

\* Decoded bodies: the two accepted shapes and others
Bodies ==
    { Arr(RowsA), Arr(<<>>), Arr(RowsB), ObjPoints(Arr(RowsA)),
      ObjPoints(Arr(RowsB)), ObjPoints(Num(3)), ObjPoints(Null), PlainObj,
      Null, Num(7), Str(1), Bool(1) }

\* Every answer of the network to one request
Answers ==
    {Response(FALSE, 0, FALSE, Null)}
        \cup {Response(TRUE, st, FALSE, Null) : st \in Statuses}
        \cup {Response(TRUE, st, TRUE, b) : st \in Statuses, b \in Bodies}

FetchIdle ==
    /\ fhPc = NotRunning
    /\ fhSlot = NotRunning
    /\ fhRes = NotRunning
    /\ fhOut = NotRunning

\* fetchHour(HOURS[fhSlot]) settles on the answer fhRes
FetchStep ==
    /\ fhPc = "called"
    /\ fhPc' = "settled"
    /\ fhOut' = FetchHour(HOURS[fhSlot], fhRes)
    /\ UNCHANGED <<fhSlot, fhRes>>

-----------------------------------------------------------------------------
(* The two proxy handlers.  Strings are sequences of tokens; a header set  *)
(* is a function from the names that are set to their values.              *)

NoHeaders == [n \in {} |-> ""]

\* res.setHeader(name, value), headers.set(name, value)
SetHeader(h, name, value) ==
    [n \in DOMAIN h \cup {name} |-> IF n = name THEN value ELSE h[n]]

\* headers.get(name): <<value>>, or <<>> for null
HeaderGet(h, name) == IF name \in DOMAIN h THEN <<h[name]>> ELSE <<>>

\* got ?? dflt
Coalesce(got, dflt) == IF got = <<>> THEN dflt ELSE got[1]

\* parts.join("/")
RECURSIVE Join(_)
Join(parts) ==
    IF parts = <<>> THEN <<>>
    ELSE IF Len(parts) = 1 THEN parts[1].v
    ELSE parts[1].v \o <<"/">> \o Join(Tail(parts))

\* encodeURIComponent(str) on tokens of unreserved characters and "/"
EncodeURIComponent(str) ==
    [i \in 1..Len(str) |-> IF str[i] = "/" THEN "%2F" ELSE str[i]]

\* The response object before the handler touches it
FreshRes == [status |-> 200, headers |-> NoHeaders, body |-> <<>>, ended |-> FALSE]

\* A handler that has not been called
ProxyStart == [pc |-> "start", res |-> FreshRes, calls |-> <<>>]

Methods == {"GET", "OPTIONS", "POST", "HEAD"}

\* req.query of the requests of the model: path and file
Queries ==
    { [path |-> Arr(<<Str(<<"treasure">>), Str(<<"00.json">>)>>), file |-> Str(<<"00.json">>)],
      [path |-> Str(<<"treasure", "/", "23.json">>), file |-> Str(<<"a", "/", "b">>)],
      [path |-> Undefined, file |-> Undefined] }

UpStatuses == {200, 204, 404, 500}

UpHeaders ==
    { NoHeaders,
      SetHeader(NoHeaders, "content-type", "text/html"),
      SetHeader(NoHeaders, "content-type", ""),
      SetHeader(SetHeader(NoHeaders, "content-type", "application/json"),
                "cache-control", "no-store") }

UpBodies == { <<>>, <<91, 93>>, <<123, 0, 255>> }

\* What the upstream host does: fetch() rejects (net = FALSE), or it answers
\* with a status, headers and a body that arrives (read = TRUE) or breaks off
Upstreams ==
    {[net |-> FALSE, status |-> 0, headers |-> NoHeaders, read |-> FALSE, body |-> <<>>]}
        \cup {[net |-> TRUE, status |-> st, headers |-> h, read |-> FALSE, body |-> <<>>] :
                st \in UpStatuses, h \in UpHeaders}
        \cup {[net |-> TRUE, status |-> st, headers |-> h, read |-> TRUE, body |-> b] :
                st \in UpStatuses, h \in UpHeaders, b \in UpBodies}

\* const cc = "max-age=0, s-maxage=60, stale-while-revalidate=300"
CacheControl == "max-age=0, s-maxage=60, stale-while-revalidate=300"

\* The path-based handler (api/wb/[...path].ts)

\* req.method === "OPTIONS" never holding
NeverPreflight(req) == FALSE

\* req.method === "OPTIONS"
IsPreflight(req) == req.method = "OPTIONS"

\* The answer to OPTIONS: three CORS headers, res.status(204).end()
PreflightRes(res) ==
    [res EXCEPT !.headers =
                    SetHeader(SetHeader(SetHeader(@,
                        "Access-Control-Allow-Origin", "*"),
                        "Access-Control-Allow-Methods", "GET, OPTIONS"),
                        "Access-Control-Allow-Headers", "Content-Type"),
                !.status = 204,
                !.ended = TRUE]

\* Array.isArray(req.query.path) ? req.query.path.join("/") : (req.query.path || "")
PathSeg(query) ==
    IF IsArray(query.path) THEN Join(query.path.a)
    ELSE IF query.path.t = "string" THEN query.path.v
    ELSE <<>>

PathTarget(query) ==
    [url |-> <<"https://a.windbornesystems.com/">> \o PathSeg(query),
     headers |-> SetHeader(NoHeaders, "user-agent", "balloons-proxy/1.0")]

\* The relay answering 200 whenever the upstream answered
PathRelaySwallows(res, up) ==
    [res EXCEPT !.status = 200,
                !.headers =
                    SetHeader(SetHeader(SetHeader(SetHeader(@,
                        "Content-Type",
                            Coalesce(HeaderGet(up.headers, "content-type"),
                                     "application/json")),
                        "Access-Control-Allow-Origin", "*"),
                        "Cache-Control", CacheControl),
                        "CDN-Cache-Control", CacheControl)]

\* res.status(upstream.status) and the four setHeader calls
PathRelay(res, up) ==
    [res EXCEPT !.status = up.status,
                !.headers =
                    SetHeader(SetHeader(SetHeader(SetHeader(@,
                        "Content-Type",
                            Coalesce(HeaderGet(up.headers, "content-type"),
                                     "application/json")),
                        "Access-Control-Allow-Origin", "*"),
                        "Cache-Control", CacheControl),
                        "CDN-Cache-Control", CacheControl)]

\* res.send(Buffer.from(body))
Send(res, body) == [res EXCEPT !.body = body, !.ended = TRUE]

\* The handler runs up to its first await: the answer to OPTIONS, or the
\* call of fetch()
PathHandlerStart ==
    /\ pxA.pc = "start"
    /\ pxA' = IF IsPreflight(pxReq)
              THEN [pxA EXCEPT !.pc = "done", !.res = PreflightRes(@)]
              ELSE [pxA EXCEPT !.pc = "fetching",
                               !.calls = Append(@, PathTarget(pxReq.query))]
    /\ UNCHANGED <<pxReq, pxUp, pxB>>

\* fetch() settles: the handler throws, or relays status and headers and
\* starts reading the body
PathHandlerOnFetch ==
    /\ pxA.pc = "fetching"
    /\ pxA' = IF ~pxUp.net THEN [pxA EXCEPT !.pc = "threw"]
              ELSE [pxA EXCEPT !.pc = "reading", !.res = PathRelay(@, pxUp)]
    /\ UNCHANGED <<pxReq, pxUp, pxB>>

\* upstream.arrayBuffer() settles: the handler throws, or sends the body
PathHandlerOnBody ==
    /\ pxA.pc = "reading"
    /\ pxA' = IF ~pxUp.read THEN [pxA EXCEPT !.pc = "threw"]
              ELSE [pxA EXCEPT !.pc = "done", !.res = Send(@, pxUp.body)]
    /\ UNCHANGED <<pxReq, pxUp, pxB>>

\* The query-based handler

\* String(req.query.file || "")
QueryFile(query) == IF query.file.t = "string" THEN query.file.v ELSE <<>>

QueryTarget(query) ==
    [url |-> <<"https://a.windbornesystems.com/treasure/">>
                \o EncodeURIComponent(QueryFile(query)),
     headers |-> NoHeaders]

\* The relay without the CDN-Cache-Control header
QueryRelayNoCdn(res, up) ==
    [res EXCEPT !.status = up.status,
                !.headers =
                    SetHeader(SetHeader(SetHeader(@,
                        "Content-Type",
                            Coalesce(HeaderGet(up.headers, "content-type"),
                                     "application/json")),
                        "Access-Control-Allow-Origin", "*"),
                        "Cache-Control", CacheControl)]

\* res.status(r.status) and the four setHeader calls
QueryRelay(res, up) ==
    [res EXCEPT !.status = up.status,
                !.headers =
                    SetHeader(SetHeader(SetHeader(SetHeader(@,
                        "Content-Type",
                            Coalesce(HeaderGet(up.headers, "content-type"),
                                     "application/json")),
                        "Access-Control-Allow-Origin", "*"),
                        "Cache-Control",
                            "max-age=0, s-maxage=60, stale-while-revalidate=300"),
                        "CDN-Cache-Control",
                            "max-age=0, s-maxage=60, stale-while-revalidate=300")]

\* The handler runs up to its first await: the call of fetch()
QueryHandlerStart ==
    /\ pxB.pc = "start"
    /\ pxB' = [pxB EXCEPT !.pc = "fetching",
                          !.calls = Append(@, QueryTarget(pxReq.query))]
    /\ UNCHANGED <<pxReq, pxUp, pxA>>

\* fetch() settles: the handler throws, or starts reading the body
QueryHandlerOnFetch ==
    /\ pxB.pc = "fetching"
    /\ pxB' = IF ~pxUp.net THEN [pxB EXCEPT !.pc = "threw"]
              ELSE [pxB EXCEPT !.pc = "reading"]
    /\ UNCHANGED <<pxReq, pxUp, pxA>>

\* r.arrayBuffer() settles: the handler throws, or relays status and
\* headers and sends the body
QueryHandlerOnBody ==
    /\ pxB.pc = "reading"
    /\ pxB' = IF ~pxUp.read THEN [pxB EXCEPT !.pc = "threw"]
              ELSE [pxB EXCEPT !.pc = "done",
                               !.res = Send(QueryRelay(@, pxUp), pxUp.body)]
    /\ UNCHANGED <<pxReq, pxUp, pxA>>

ProxyIdle ==
    /\ pxReq = NotRunning
    /\ pxUp = NotRunning
    /\ pxA = NotRunning
    /\ pxB = NotRunning

-----------------------------------------------------------------------------
(* The wind query of the selected point.  A click on a marker calls        *)
(* setSelected(p); React renders and runs the effect of [selected] - the   *)
(* cleanup of the previous run, then the new run - within the same task,   *)
(* before the continuation of any fetch can run.                           *)

\* Selections of one session
MaxSelections == 3

\* The Point objects behind the markers
WindPoints == {"p1", "p2", "p3"}

NoWx == [set |-> FALSE, pt |-> "null"]

\* The Wx that fetchOpenMeteo(p.lat, p.lon) resolves with
WxOf(p) == [set |-> TRUE, pt |-> p]

\* How fetchOpenMeteo settles: with data, or with String(e) of what it threw
WxOutcomes ==
    { [ok |-> TRUE, err |-> ""],
      [ok |-> FALSE, err |-> "Error: Open-Meteo HTTP 500"],
      [ok |-> FALSE, err |-> "TypeError: Failed to fetch"] }

WindIdle ==
    /\ selected = "null"
    /\ wx = NoWx
    /\ wxLoading = FALSE
    /\ wxErr = ""
    /\ wq = <<>>
    /\ mounted = TRUE

\* The cleanup of the previous run of the effect: cancelled = true
CancelLast(runs) ==
    IF runs = <<>> THEN runs ELSE [runs EXCEPT ![Len(runs)].cancelled = TRUE]

\* click: () => setSelected(p), then the effect: cleanup of the previous
\* run, setWxLoading(true), setWxErr(""), and the call of fetchOpenMeteo.
\* Selecting the point that is selected already changes nothing.
WindSelect(p) ==
    /\ mounted
    /\ Len(wq) < MaxSelections
    /\ p # selected
    /\ selected' = p
    /\ wq' = Append(CancelLast(wq), [pt |-> p, pc |-> "inflight", cancelled |-> FALSE])
    /\ wxLoading' = TRUE
    /\ wxErr' = ""
    /\ UNCHANGED <<wx, mounted>>

\* The continuation of the await writing without looking at `cancelled`
WindSettlesNoCancelCheck(i) ==
    /\ wq[i].pc = "inflight"
    /\ wq' = [wq EXCEPT ![i].pc = "settled"]
    /\ \E out \in WxOutcomes :
        /\ wx' = IF out.ok THEN WxOf(wq[i].pt) ELSE wx
        /\ wxErr' = IF out.ok THEN wxErr ELSE out.err
    /\ wxLoading' = FALSE
    /\ UNCHANGED <<selected, mounted>>

\* fetchOpenMeteo of run i settles and the rest of the async function runs:
\* setWx(r) or setWxErr(String(e)), then setWxLoading(false), each only
\* when the run is not cancelled
WindSettles(i) ==
    /\ wq[i].pc = "inflight"
    /\ wq' = [wq EXCEPT ![i].pc = "settled"]
    /\ \E out \in WxOutcomes :
        /\ wx' = IF ~wq[i].cancelled /\ out.ok THEN WxOf(wq[i].pt) ELSE wx
        /\ wxErr' = IF ~wq[i].cancelled /\ ~out.ok THEN out.err ELSE wxErr
    /\ wxLoading' = IF wq[i].cancelled THEN wxLoading ELSE FALSE
    /\ UNCHANGED <<selected, mounted>>

\* The component unmounts: the cleanup of the last run
WindUnmount ==
    /\ mounted
    /\ mounted' = FALSE
    /\ wq' = CancelLast(wq)
    /\ UNCHANGED <<selected, wx, wxLoading, wxErr>>

\* No render is looked at
PanelIdle == effectDue = NotRunning

\* The copy-on-write update is not looked at
CowIdle ==
    /\ heap = NotRunning
    /\ cur = NotRunning
    /\ held = NotRunning
    /\ applied = NotRunning

-----------------------------------------------------------------------------
(* The useWindborne hook: React state and one ingestion cycle per run of   *)
(* the effect.                                                             *)

VARIABLES
    impl,       \* which version of the hook runs: "progressive" or "batch"
    loading,    \* useState: loading
    error,      \* useState: error
    byHour,     \* useState: byHour, a sequence of array (or undefined) entries
    progress,   \* useState: progress, the fraction num / den
    ncycles,    \* runs of the effect so far
    phase,      \* per cycle: "idle", "running", "threw" or "finished"
    cancelled,  \* per cycle: the effect's `cancelled`
    completed,  \* per cycle: the effect's `completed`
    slot,       \* per cycle and slot: the promise chain of one fetch
    requests    \* per cycle: the addresses fetch() was called with, in order

hookVars == <<impl, loading, error, byHour, progress, ncycles, phase,
              cancelled, completed, slot, requests>>

vars == <<hookVars, outside>>

\* a / b as a fraction
Ratio(a, b) == [num |-> a, den |-> b]

\* Array.from({ length: HOURS.length }, () => [])
EmptyHours == [s \in Slots |-> Arr(<<>>)]

\* const url = `${WB_BASE}${hh}.json`
WB_BASE == "/api/wb/treasure/"
Url(hh) == [base |-> WB_BASE, hh |-> hh, ext |-> ".json"]

\* HOURS.forEach / HOURS.map call fetchHour, and with it fetch(), for every
\* hour in the order of HOURS
Dispatch == [s \in Slots |-> Url(HOURS[s])]

\* String(e) of an error thrown while the effect sets the cycle up
SetupError == "Error: setup"

\* One fetch and its handlers: pc is "idle" (not dispatched), "pending" (the
\* request is in flight), "resolved" or "rejected" (fetchHour settled, no
\* handler has run), "thenDone" or "caught" (the then or catch handler has
\* run) and "done" (the last handler has run).  ok, points and err keep what
\* fetchHour settled with; val is what the batch mapper returned.
IdleSlot == [pc |-> "idle", ok |-> FALSE, points |-> <<>>, err |-> NoErr, val |-> Undefined]

PendingSlot == [IdleSlot EXCEPT !.pc = "pending"]

\* useState's initial byHour of the batch version
BatchInitialByHour == <<>>

\* useState's initial byHour of a progressive version that does not pre-fill it
InitialByHourNotPrefilled == <<>>

\* useState's initial byHour of the progressive version
ProgInitialByHour == EmptyHours

HookInit ==
    /\ impl \in {"progressive", "batch"}
    /\ loading = TRUE
    /\ error = ""
    /\ byHour = IF impl = "progressive" THEN ProgInitialByHour ELSE BatchInitialByHour
    /\ progress = Ratio(0, 1)
    /\ ncycles = 0
    /\ phase = [c \in Cycles |-> "idle"]
    /\ cancelled = [c \in Cycles |-> FALSE]
    /\ completed = [c \in Cycles |-> 0]
    /\ slot = [c \in Cycles |-> [s \in Slots |-> IdleSlot]]
    /\ requests = [c \in Cycles |-> <<>>]

\* The hook before its effect has run, in the progressive version
HookIdle == HookInit /\ impl = "progressive"

\* Nothing outside the hook runs
OutsideIdle == ParseIdle /\ FetchIdle /\ ProxyIdle /\ WindIdle /\ CowIdle /\ PanelIdle

Init == HookInit /\ OutsideIdle

\* The effect may run as cycle c: it is the next run, and the run before it
\* has been cleaned up.
MayRun(c) ==
    /\ c = ncycles + 1
    /\ c > 1 => cancelled[c - 1]

\* prev.slice(); next[idx] = points; an index past the end leaves holes
SliceSet(prev, s, points) ==
    [k \in 1..(IF s > Len(prev) THEN s ELSE Len(prev)) |->
        IF k = s THEN Arr(points)
        ELSE IF k <= Len(prev) THEN prev[k] ELSE Undefined]

-----------------------------------------------------------------------------
(* The progressive version                                                 *)

\* The body of the effect without setByHour(Array.from(...))
ProgEffectKeepsByHour(c) ==
    /\ impl = "progressive"
    /\ MayRun(c)
    /\ ncycles' = c
    /\ phase' = [phase EXCEPT ![c] = "running"]
    /\ loading' = TRUE
    /\ error' = ""
    /\ progress' = Ratio(0, 1)
    /\ slot' = [slot EXCEPT ![c] = [s \in Slots |-> PendingSlot]]
    /\ requests' = [requests EXCEPT ![c] = Dispatch]
    /\ UNCHANGED <<outside, impl, byHour, cancelled, completed>>

\* The body of the effect: reset the state and dispatch every fetch.
ProgEffect(c) ==
    /\ impl = "progressive"
    /\ MayRun(c)
    /\ ncycles' = c
    /\ phase' = [phase EXCEPT ![c] = "running"]
    /\ loading' = TRUE
    /\ error' = ""
    /\ byHour' = EmptyHours
    /\ progress' = Ratio(0, 1)
    /\ slot' = [slot EXCEPT ![c] = [s \in Slots |-> PendingSlot]]
    /\ requests' = [requests EXCEPT ![c] = Dispatch]
    /\ UNCHANGED <<outside, impl, cancelled, completed>>

\* The body of the effect throws after k of its four setters, before
\* HOURS.forEach dispatches anything.  Nothing catches the error and the
\* effect returns no cleanup.
ProgEffectThrows(c) ==
    /\ impl = "progressive"
    /\ MayRun(c)
    /\ ncycles' = c
    /\ phase' = [phase EXCEPT ![c] = "threw"]
    /\ \E k \in 0..4 :
        /\ loading' = IF k >= 1 THEN TRUE ELSE loading
        /\ error' = IF k >= 2 THEN "" ELSE error
        /\ byHour' = IF k >= 3 THEN EmptyHours ELSE byHour
        /\ progress' = IF k >= 4 THEN Ratio(0, 1) ELSE progress
    /\ UNCHANGED <<outside, requests, impl, cancelled, completed, slot>>

\* The request of slot s gets its answer and fetchHour settles.
FetchSettlesWith(c, s, answers) ==
    /\ slot[c][s].pc = "pending"
    /\ \E res \in answers :
        LET out == FetchHour(HOURS[s], res)
        IN  slot' = [slot EXCEPT ![c][s] =
                        [pc |-> IF out.ok THEN "resolved" ELSE "rejected",
                         ok |-> out.ok, points |-> out.points, err |-> out.err,
                         val |-> Undefined]]
    /\ UNCHANGED <<outside, requests, impl, loading, error, byHour, progress, ncycles, phase,
                   cancelled, completed>>

FetchSettles(c, s) == FetchSettlesWith(c, s, Responses)

\* The then handler without its `if (cancelled) return`
OnThenNoCancelCheck(c, s) ==
    /\ impl = "progressive"
    /\ slot[c][s].pc = "resolved"
    /\ slot' = [slot EXCEPT ![c][s].pc = "thenDone"]
    /\ byHour' = SliceSet(byHour, s, slot[c][s].points)
    /\ UNCHANGED <<outside, requests, impl, loading, error, progress, ncycles, phase, cancelled,
                   completed>>

\* The then handler writing in settlement order
OnThenAppend(c, s) ==
    /\ impl = "progressive"
    /\ slot[c][s].pc = "resolved"
    /\ slot' = [slot EXCEPT ![c][s].pc = "thenDone"]
    /\ byHour' = IF cancelled[c] THEN byHour
                 ELSE SliceSet(byHour, completed[c] + 1, slot[c][s].points)
    /\ UNCHANGED <<outside, requests, impl, loading, error, progress, ncycles, phase, cancelled,
                   completed>>

\* A then handler looking at one `cancelled` shared by all runs of the
\* effect, which the latest run has set back to false
OnThenSharedFlag(c, s) ==
    /\ impl = "progressive"
    /\ slot[c][s].pc = "resolved"
    /\ slot' = [slot EXCEPT ![c][s].pc = "thenDone"]
    /\ byHour' = IF cancelled[ncycles] THEN byHour
                 ELSE SliceSet(byHour, s, slot[c][s].points)
    /\ UNCHANGED <<outside, requests, impl, loading, error, progress, ncycles, phase, cancelled,
                   completed>>

\* .then((points) => ...)
OnThen(c, s) ==
    /\ impl = "progressive"
    /\ slot[c][s].pc = "resolved"
    /\ slot' = [slot EXCEPT ![c][s].pc = "thenDone"]
    /\ byHour' = IF cancelled[c] THEN byHour
                 ELSE SliceSet(byHour, s, slot[c][s].points)
    /\ UNCHANGED <<outside, requests, impl, loading, error, progress, ncycles, phase, cancelled,
                   completed>>

\* A catch handler that surfaces the failure of the slot
OnCatchSetsError(c, s) ==
    /\ impl = "progressive"
    /\ slot[c][s].pc = "rejected"
    /\ slot' = [slot EXCEPT ![c][s].pc = "caught"]
    /\ error' = IF cancelled[c] THEN error ELSE SetupError
    /\ UNCHANGED <<outside, requests, impl, loading, byHour, progress, ncycles, phase,
                   cancelled, completed>>

\* A catch handler that requests the failed hour once more
OnCatchRetries(c, s) ==
    /\ impl = "progressive"
    /\ slot[c][s].pc = "rejected"
    /\ slot' = [slot EXCEPT ![c][s] = PendingSlot]
    /\ requests' = [requests EXCEPT ![c] = Append(@, Url(HOURS[s]))]
    /\ UNCHANGED <<outside, impl, loading, error, byHour, progress, ncycles, phase,
                   cancelled, completed>>

\* .catch((e) => ...): logs and leaves the hour as it is
OnCatch(c, s) ==
    /\ impl = "progressive"
    /\ slot[c][s].pc = "rejected"
    /\ slot' = [slot EXCEPT ![c][s].pc = "caught"]
    /\ UNCHANGED <<outside, requests, impl, loading, error, byHour, progress, ncycles, phase,
                   cancelled, completed>>

\* The finally update computing progress before it counts the settlement
FinallyUpdateStaleProgress(c) ==
    /\ completed' = [completed EXCEPT ![c] = completed[c] + 1]
    /\ progress' = Ratio(completed[c], NumHours)
    /\ loading' = IF completed[c] + 1 = NumHours THEN FALSE ELSE loading

\* The finally update ending loading one settlement early
FinallyUpdateEarlyExit(c) ==
    /\ completed' = [completed EXCEPT ![c] = completed[c] + 1]
    /\ progress' = Ratio(completed[c] + 1, NumHours)
    /\ loading' = IF completed[c] + 1 >= NumHours - 1 THEN FALSE ELSE loading

\* What the finally handler does to completed, progress and loading
FinallyUpdate(c) ==
    /\ completed' = [completed EXCEPT ![c] = completed[c] + 1]
    /\ progress' = Ratio(completed[c] + 1, NumHours)
    /\ loading' = IF completed[c] + 1 = NumHours THEN FALSE ELSE loading

\* The completion counted in the then handler's path only: a failed slot
\* is never counted
OnFinallySkipsFailed(c, s) ==
    /\ impl = "progressive"
    /\ slot[c][s].pc \in {"thenDone", "caught"}
    /\ slot' = [slot EXCEPT ![c][s].pc = "done"]
    /\ IF cancelled[c] \/ ~slot[c][s].ok
       THEN UNCHANGED <<completed, progress, loading>>
       ELSE FinallyUpdate(c)
    /\ UNCHANGED <<outside, requests, impl, error, byHour, ncycles, phase, cancelled>>

\* A finally handler that is not chained behind the then handler: it may
\* count a resolved slot whose points are not written
OnFinallyBeforeThen(c, s) ==
    /\ impl = "progressive"
    /\ slot[c][s].pc \in {"resolved", "thenDone", "caught"}
    /\ slot' = [slot EXCEPT ![c][s].pc = "done"]
    /\ IF cancelled[c]
       THEN UNCHANGED <<completed, progress, loading>>
       ELSE FinallyUpdate(c)
    /\ UNCHANGED <<outside, requests, impl, error, byHour, ncycles, phase, cancelled>>

\* .finally(() => ...)
OnFinally(c, s) ==
    /\ impl = "progressive"
    /\ slot[c][s].pc \in {"thenDone", "caught"}
    /\ slot' = [slot EXCEPT ![c][s].pc = "done"]
    /\ IF cancelled[c]
       THEN UNCHANGED <<completed, progress, loading>>
       ELSE FinallyUpdate(c)
    /\ UNCHANGED <<outside, requests, impl, error, byHour, ncycles, phase, cancelled>>

\* The cleanup the effect returned: cancelled = true
Cleanup(c) ==
    /\ c = ncycles
    /\ phase[c] \in {"running", "finished"} \/ (impl = "batch" /\ phase[c] = "threw")
    /\ ~cancelled[c]
    /\ cancelled' = [cancelled EXCEPT ![c] = TRUE]
    /\ UNCHANGED <<outside, requests, impl, loading, error, byHour, progress, ncycles, phase,
                   completed, slot>>

-----------------------------------------------------------------------------
(* The batch version                                                       *)

\* The async function of the effect up to its await: the try block sets
\* loading and error and maps every hour to a fetch.
BatchEffect(c) ==
    /\ impl = "batch"
    /\ MayRun(c)
    /\ ncycles' = c
    /\ phase' = [phase EXCEPT ![c] = "running"]
    /\ loading' = TRUE
    /\ error' = ""
    /\ slot' = [slot EXCEPT ![c] = [s \in Slots |-> PendingSlot]]
    /\ requests' = [requests EXCEPT ![c] = Dispatch]
    /\ UNCHANGED <<outside, impl, byHour, progress, cancelled, completed>>

\* The try block throws before it dispatches anything: the catch clause
\* sets the error and the finally clause ends loading (cancelled is false,
\* the effect has not returned yet).
BatchEffectThrows(c) ==
    /\ impl = "batch"
    /\ MayRun(c)
    /\ ncycles' = c
    /\ phase' = [phase EXCEPT ![c] = "threw"]
    /\ error' = SetupError
    /\ loading' = FALSE
    /\ UNCHANGED <<outside, requests, impl, byHour, progress, cancelled, completed, slot>>

\* A mapper without the inner try/catch value: a failed hour gives undefined
BatchMapperNoFallback(c, s) ==
    /\ impl = "batch"
    /\ slot[c][s].pc \in {"resolved", "rejected"}
    /\ slot' = [slot EXCEPT ![c][s].pc = "done",
                            ![c][s].val = IF slot[c][s].ok
                                          THEN Arr(slot[c][s].points)
                                          ELSE Undefined]
    /\ UNCHANGED <<outside, requests, impl, loading, error, byHour, progress, ncycles, phase,
                   cancelled, completed>>

\* HOURS.map(async (hh) => ...): the points of the hour, or [] when
\* fetchHour threw
BatchMapper(c, s) ==
    /\ impl = "batch"
    /\ slot[c][s].pc \in {"resolved", "rejected"}
    /\ slot' = [slot EXCEPT ![c][s].pc = "done",
                            ![c][s].val = IF slot[c][s].ok
                                          THEN Arr(slot[c][s].points)
                                          ELSE Arr(<<>>)]
    /\ UNCHANGED <<outside, requests, impl, loading, error, byHour, progress, ncycles, phase,
                   cancelled, completed>>

\* The continuation of the await without its checks of `cancelled`
BatchAllSettledNoCancelCheck(c) ==
    /\ impl = "batch"
    /\ phase[c] = "running"
    /\ \A s \in Slots : slot[c][s].pc = "done"
    /\ phase' = [phase EXCEPT ![c] = "finished"]
    /\ byHour' = [s \in Slots |-> slot[c][s].val]
    /\ loading' = FALSE
    /\ UNCHANGED <<outside, requests, impl, error, progress, ncycles, cancelled, completed, slot>>

\* Promise.all has resolved: the rest of the try block and the finally clause
BatchAllSettled(c) ==
    /\ impl = "batch"
    /\ phase[c] = "running"
    /\ \A s \in Slots : slot[c][s].pc = "done"
    /\ phase' = [phase EXCEPT ![c] = "finished"]
    /\ byHour' = IF cancelled[c] THEN byHour ELSE [s \in Slots |-> slot[c][s].val]
    /\ loading' = IF cancelled[c] THEN loading ELSE FALSE
    /\ UNCHANGED <<outside, requests, impl, error, progress, ncycles, cancelled, completed, slot>>

-----------------------------------------------------------------------------
(* One mount of the component: the effect runs once and may be cleaned up. *)

Next ==
    \/ ProgEffect(1)
    \/ ProgEffectThrows(1)
    \/ BatchEffect(1)
    \/ BatchEffectThrows(1)
    \/ Cleanup(1)
    \/ \E s \in Slots : FetchSettles(1, s)
    \/ \E s \in Slots : OnThen(1, s)
    \/ \E s \in Slots : OnCatch(1, s)
    \/ \E s \in Slots : OnFinally(1, s)
    \/ \E s \in Slots : BatchMapper(1, s)
    \/ BatchAllSettled(1)

Spec == Init /\ [][Next]_vars

\* Every request is answered and the event loop runs every queued handler.
Fairness ==
    \A s \in Slots :
        /\ WF_vars(FetchSettles(1, s))
        /\ WF_vars(OnThen(1, s))
        /\ WF_vars(OnCatch(1, s))
        /\ WF_vars(OnFinally(1, s))
        /\ WF_vars(BatchMapper(1, s))

LiveSpec == Init /\ [][Next]_vars /\ Fairness /\ WF_vars(BatchAllSettled(1))

-----------------------------------------------------------------------------
(* parseRow on every raw record of the model                               *)

ParseInit ==
    /\ HookIdle
    /\ FetchIdle
    /\ ProxyIdle
    /\ WindIdle
    /\ parsePc = "input"
    /\ raw \in RawRecords
    /\ point = Rejected
    /\ again = NotAgain
    /\ CowIdle
    /\ PanelIdle

ParseNext ==
    \/ ParseStep /\ UNCHANGED <<hookVars, fetchVars, proxyVars, windVars, cowVars, panelVars>>
    \/ ReparseStep /\ UNCHANGED <<hookVars, fetchVars, proxyVars, windVars, cowVars, panelVars>>

ParseSpec == ParseInit /\ [][ParseNext]_vars

-----------------------------------------------------------------------------
(* The progressive hook whose effect runs, is cleaned up, and runs again   *)
(* on the same state (the second run of React's StrictMode, or a hot       *)
(* reload of the module); the handlers of the first run may still be       *)
(* queued when the second starts.                                          *)

\* The answers of the network in both runs: hour "00" is missing upstream,
\* every other hour has its snapshot
StrictAnswers(s) ==
    IF s = 1 THEN {Response(TRUE, 404, FALSE, Null)}
    ELSE {Response(TRUE, 200, TRUE, Arr(RowsA))}

StrictInit == HookIdle /\ OutsideIdle

StrictNext ==
    \E c \in Cycles :
        \/ ProgEffect(c)
        \/ ProgEffectThrows(c)
        \/ Cleanup(c)
        \/ \E s \in Slots : FetchSettlesWith(c, s, StrictAnswers(s))
        \/ \E s \in Slots : OnThen(c, s)
        \/ \E s \in Slots : OnCatch(c, s)
        \/ \E s \in Slots : OnFinally(c, s)

StrictSpec == StrictInit /\ [][StrictNext]_vars

-----------------------------------------------------------------------------
(* fetchHour on every hour and every answer of the model                   *)

FetchInit ==
    /\ HookIdle
    /\ ParseIdle
    /\ ProxyIdle
    /\ WindIdle
    /\ fhPc = "called"
    /\ fhSlot \in Slots
    /\ fhRes \in Answers
    /\ fhOut = Resolved(<<>>)
    /\ CowIdle
    /\ PanelIdle

FetchNext == FetchStep /\ UNCHANGED <<hookVars, parseVars, proxyVars, windVars, cowVars, panelVars>>

FetchSpec == FetchInit /\ [][FetchNext]_vars

-----------------------------------------------------------------------------
(* One request handed to both proxy handlers, with the same upstream       *)

ProxyInit ==
    /\ HookIdle
    /\ ParseIdle
    /\ FetchIdle
    /\ WindIdle
    /\ pxReq \in [method : Methods, query : Queries]
    /\ pxUp \in Upstreams
    /\ pxA = ProxyStart
    /\ pxB = ProxyStart
    /\ CowIdle
    /\ PanelIdle

ProxyNext ==
    \/ PathHandlerStart /\ UNCHANGED <<hookVars, parseVars, fetchVars, windVars, cowVars, panelVars>>
    \/ PathHandlerOnFetch /\ UNCHANGED <<hookVars, parseVars, fetchVars, windVars, cowVars, panelVars>>
    \/ PathHandlerOnBody /\ UNCHANGED <<hookVars, parseVars, fetchVars, windVars, cowVars, panelVars>>
    \/ QueryHandlerStart /\ UNCHANGED <<hookVars, parseVars, fetchVars, windVars, cowVars, panelVars>>
    \/ QueryHandlerOnFetch /\ UNCHANGED <<hookVars, parseVars, fetchVars, windVars, cowVars, panelVars>>
    \/ QueryHandlerOnBody /\ UNCHANGED <<hookVars, parseVars, fetchVars, windVars, cowVars, panelVars>>

ProxySpec == ProxyInit /\ [][ProxyNext]_vars

-----------------------------------------------------------------------------
(* A session of clicks on markers, the wind queries they start, and the    *)
(* unmount of the component                                                *)

WindInit ==
    /\ HookInit
    /\ ParseIdle
    /\ FetchIdle
    /\ ProxyIdle
    /\ WindIdle
    /\ CowIdle
    /\ PanelIdle

WindNext ==
    \/ \E p \in WindPoints :
            WindSelect(p) /\ UNCHANGED <<hookVars, parseVars, fetchVars, proxyVars, cowVars, panelVars>>
    \/ \E i \in DOMAIN wq :
            WindSettles(i) /\ UNCHANGED <<hookVars, parseVars, fetchVars, proxyVars, cowVars, panelVars>>
    \/ WindUnmount /\ UNCHANGED <<hookVars, parseVars, fetchVars, proxyVars, cowVars, panelVars>>

WindSpec == WindInit /\ [][WindNext]_vars

-----------------------------------------------------------------------------
(* The updater of setByHour on arrays with identity: heap[r] is the        *)
(* content of the array with reference r, byHour refers to heap[cur], and  *)
(* the rendering layer still refers to the array of its last render.       *)

\* The point lists the then handlers are called with
CowPoints ==
    { <<>>, FilterBoolean(MapParseRow(RowsA)), FilterBoolean(MapParseRow(RowsB)) }

\* An updater that writes into the array it was given
UpdaterInPlace(h, prev, s, points) ==
    [heap |-> [h EXCEPT ![prev] = SliceSet(h[prev], s, points)], ref |-> prev]

\* (prev) => { const next = prev.slice(); next[idx] = points; return next; }
\* prev.slice() allocates a new array; the assignment writes into it
Updater(h, prev, s, points) ==
    [heap |-> Append(h, SliceSet(h[prev], s, points)), ref |-> Len(h) + 1]

\* The then handler of slot s runs with points: setByHour(updater)
CowThen(s, points) ==
    /\ s \notin applied
    /\ applied' = applied \cup {s}
    /\ LET r == Updater(heap, cur, s, points)
       IN  heap' = r.heap /\ cur' = r.ref
    /\ UNCHANGED held

\* The component renders and hands byHour to the rendering layer
CowRender ==
    /\ held # cur
    /\ held' = cur
    /\ UNCHANGED <<heap, cur, applied>>

CowInit ==
    /\ HookIdle
    /\ ParseIdle
    /\ FetchIdle
    /\ ProxyIdle
    /\ WindIdle
    /\ heap = <<EmptyHours>>
    /\ cur = 1
    /\ held = 1
    /\ applied = {}
    /\ PanelIdle

CowNext ==
    \/ \E s \in Slots, points \in CowPoints :
            CowThen(s, points)
                /\ UNCHANGED <<hookVars, parseVars, fetchVars, proxyVars, windVars, panelVars>>
    \/ CowRender /\ UNCHANGED <<hookVars, parseVars, fetchVars, proxyVars, windVars, panelVars>>

CowSpec == CowInit /\ [][CowNext]_vars

-----------------------------------------------------------------------------
(* The wind panel: the click handler and the effect as the two callbacks   *)
(* they are.  The click handler only calls setSelected(p); React renders   *)
(* the component with the new `selected` and commits the output, and runs  *)
(* the effect of [selected] after that commit.  As in WindSelect, nothing  *)
(* else runs between the two.                                              *)

\* click: () => setSelected(p), and the render React commits for it
WindClick(p) ==
    /\ mounted
    /\ effectDue = FALSE
    /\ Len(wq) < MaxSelections
    /\ p # selected
    /\ selected' = p
    /\ effectDue' = TRUE
    /\ UNCHANGED <<wx, wxLoading, wxErr, wq, mounted>>

\* The effect of [selected] after the commit: the cleanup of the previous
\* run, setWxLoading(true), setWxErr("") and the call of fetchOpenMeteo
WindEffect ==
    /\ effectDue = TRUE
    /\ effectDue' = FALSE
    /\ wq' = Append(CancelLast(wq),
                    [pt |-> selected, pc |-> "inflight", cancelled |-> FALSE])
    /\ wxLoading' = TRUE
    /\ wxErr' = ""
    /\ UNCHANGED <<selected, wx, mounted>>

PanelInit ==
    /\ HookInit
    /\ ParseIdle
    /\ FetchIdle
    /\ ProxyIdle
    /\ CowIdle
    /\ WindIdle
    /\ effectDue = FALSE

PanelNext ==
    \/ \E p \in WindPoints :
            WindClick(p) /\ UNCHANGED <<hookVars, parseVars, fetchVars, proxyVars, cowVars>>
    \/ WindEffect /\ UNCHANGED <<hookVars, parseVars, fetchVars, proxyVars, cowVars>>
    \/ \E i \in DOMAIN wq :
            /\ effectDue = FALSE
            /\ WindSettles(i)
            /\ UNCHANGED <<hookVars, parseVars, fetchVars, proxyVars, cowVars, panelVars>>
    \/ /\ effectDue = FALSE
       /\ WindUnmount
       /\ UNCHANGED <<hookVars, parseVars, fetchVars, proxyVars, cowVars, panelVars>>

PanelSpec == PanelInit /\ [][PanelNext]_vars

-----------------------------------------------------------------------------
(* Properties                                                              *)

\* Cycle c has dispatched its fetches.
Dispatched(c) == phase[c] \in {"running", "finished"}

\* Cycle c has dispatched its fetches and has not been cleaned up.
Active(c) == Dispatched(c) /\ ~cancelled[c]

\* fetchHour of slot s of cycle c has settled, with success or with failure.
Settled(c, s) == slot[c][s].pc \notin {"idle", "pending"}

Failed(c, s) == Settled(c, s) /\ ~slot[c][s].ok

Succeeded(c, s) == Settled(c, s) /\ slot[c][s].ok

\* What slot s of byHour holds once every handler of cycle c has run.
FinalEntry(c, s) == IF slot[c][s].ok THEN Arr(slot[c][s].points) ELSE Arr(<<>>)

\* The slots of cycle c whose last handler has run.
DoneSlots(c) == {s \in Slots : slot[c][s].pc = "done"}

\* p is a Point within its ranges.
ValidPoint(p) ==
    /\ p.ok
    /\ p.lat >= -90 /\ p.lat <= 90
    /\ p.lon >= -180 /\ p.lon <= 180
    /\ p.alt_km = Null \/ (IsNumber(p.alt_km) /\ p.alt_km.v >= 0 /\ p.alt_km.v <= 40)

\* The cycle of the progressive version is complete and reports success.
ProgComplete(c) ==
    /\ completed[c] = NumHours
    /\ progress.num = progress.den
    /\ loading = FALSE
    /\ error = ""
    /\ Len(byHour) = NumHours
    /\ \A s \in Slots : byHour[s] = FinalEntry(c, s)

\* C1: in the progressive version, a cycle that has dispatched its fetches
\* and is not cancelled eventually is complete (completed = NumHours,
\* progress = 1, loading = false, error = "", every failed slot empty and
\* every successful slot holding its points), whichever fetches fail and in
\* whatever order they settle, given that every fetch settles.
C1_PartialFailureStillCompletes ==
    (impl = "progressive" /\ Active(1)) ~> (cancelled[1] \/ ProgComplete(1))

\* A complete, uncancelled progressive cycle with a failed and a populated slot.
C1_Witness ==
    /\ impl = "progressive"
    /\ Active(1)
    /\ ProgComplete(1)
    /\ \E s \in Slots : Failed(1, s)
    /\ \E s \in Slots : Succeeded(1, s) /\ slot[1][s].points # <<>>

\* C2: once the cleanup of a cycle has run, no step of that cycle (a
\* settlement of one of its fetches, or a handler of one) changes byHour,
\* progress, loading, error or the cycle's completed counter.  Both versions.
C2_NoUpdateAfterCancel ==
    [][\A c \in Cycles :
          (cancelled[c] /\ (slot'[c] # slot[c] \/ phase'[c] # phase[c]))
              => /\ UNCHANGED <<byHour, progress, loading, error>>
                 /\ completed'[c] = completed[c]]_vars

\* After the cleanup, the handlers of a successful fetch with points have all
\* run (progressive), or Promise.all's continuation has run (batch), and the
\* points are not in byHour.
C2_Witness ==
    /\ cancelled[1]
    /\ \E s \in Slots :
        /\ slot[1][s].pc = "done"
        /\ slot[1][s].ok
        /\ slot[1][s].points # <<>>
        /\ impl = "batch" => phase[1] = "finished"
        /\ impl = "progressive" => byHour[s] = Arr(<<>>)

\* C3: in an uncancelled progressive cycle every slot of byHour holds the
\* points of its own fetch if that fetch succeeded and its then handler has
\* run, and the empty list otherwise: a result is written to the index of its
\* hour and to no other, whatever the order of the settlements.
C3_WritesOwnIndex ==
    (impl = "progressive" /\ Active(1)) =>
        /\ Len(byHour) = NumHours
        /\ \A s \in Slots :
              byHour[s] = IF slot[1][s].pc \in {"thenDone", "done"}
                          THEN FinalEntry(1, s) ELSE Arr(<<>>)

\* The last slot has been written while an earlier one is still pending.
C3_Witness ==
    /\ impl = "progressive"
    /\ Active(1)
    /\ slot[1][1].pc = "pending"
    /\ slot[1][NumHours].pc = "done"
    /\ slot[1][NumHours].points # <<>>
    /\ byHour[NumHours] = Arr(slot[1][NumHours].points)
    /\ byHour[1] = Arr(<<>>)

\* C4: in the progressive version byHour has exactly NumHours entries, each
\* an array of Points, in every reachable state.
C4_ProgByHourFull ==
    impl = "progressive" =>
        /\ Len(byHour) = NumHours
        /\ \A k \in 1..Len(byHour) :
              /\ IsArray(byHour[k])
              /\ \A j \in 1..Len(byHour[k].a) : byHour[k].a[j].ok

\* Cancelled mid-cycle: a slot written, a slot settled and never written, a
\* slot still pending.
C4_Witness ==
    /\ impl = "progressive"
    /\ cancelled[1]
    /\ Len(byHour) = NumHours
    /\ \E s \in Slots : byHour[s] # Arr(<<>>)
    /\ \E s \in Slots : slot[1][s].pc = "done" /\ slot[1][s].points # <<>>
                        /\ byHour[s] = Arr(<<>>)
    /\ \E s \in Slots : slot[1][s].pc = "pending"

\* C5: in the batch version byHour has exactly NumHours entries from the
\* start of a cycle on.
C5_BatchByHourFull ==
    (impl = "batch" /\ Dispatched(1)) => Len(byHour) = NumHours

\* The state half of C6, for cycle c of the progressive version.
CounterInv(c) ==
    /\ completed[c] \in 0..NumHours
    /\ completed[c] <= Cardinality({s \in Slots : Settled(c, s)})
    /\ completed[c] <= Cardinality(DoneSlots(c))
    /\ ~cancelled[c] => completed[c] = Cardinality(DoneSlots(c))
    /\ progress.den > 0
    /\ 0 <= progress.num /\ progress.num <= progress.den
    /\ Active(c) => progress.num * NumHours = completed[c] * progress.den

\* The step half of C6: the counter never decreases, and it goes up, by
\* exactly 1, exactly in the steps in which the last handler of a slot of
\* an uncancelled cycle runs.
CounterStep(c) ==
    LET finished == {s \in Slots : slot[c][s].pc # "done" /\ slot'[c][s].pc = "done"}
    IN  /\ completed'[c] \in {completed[c], completed[c] + 1}
        /\ completed'[c] = completed[c] + 1 <=> (finished # {} /\ ~cancelled[c])
        /\ Cardinality(finished) <= 1

\* C6: in an uncancelled cycle of the progressive version every settlement,
\* success or failure, adds exactly 1 to completed, once per slot, and sets
\* progress = completed / NumHours; completed stays in 0..NumHours, never
\* decreases and never exceeds the number of settled fetches, and progress
\* stays in [0, 1].
C6_CompletedCounter ==
    /\ [](impl = "progressive" => CounterInv(1))
    /\ [][impl = "progressive" => CounterStep(1)]_vars

\* Two settlements counted, one of them a failure, a fetch still pending.
C6_Witness ==
    /\ impl = "progressive"
    /\ Active(1)
    /\ completed[1] = 2
    /\ progress = Ratio(2, NumHours)
    /\ \E s \in DoneSlots(1) : Failed(1, s)
    /\ \E s \in Slots : slot[1][s].pc = "pending"

\* C7: in the progressive version, while the cycle is not cancelled, loading
\* is false exactly when completed has reached NumHours.
C7_LoadingUntilAllSettled ==
    impl = "progressive" =>
        \A c \in Cycles :
            (phase[c] # "idle" /\ ~cancelled[c]) =>
                (loading = FALSE <=> completed[c] = NumHours)

\* All but one settlement counted and loading still true.
C7_Witness ==
    /\ impl = "progressive"
    /\ Active(1)
    /\ completed[1] = NumHours - 1
    /\ loading = TRUE

\* The state half of C8.
FailureSwallowedInv ==
    /\ Dispatched(1) => error = ""
    /\ (impl = "progressive" /\ Active(1)) =>
          /\ \A s \in Slots : Failed(1, s) => byHour[s] = Arr(<<>>)
          /\ completed[1] = Cardinality(DoneSlots(1))
    /\ (impl = "batch" /\ phase[1] = "finished" /\ loading = FALSE) =>
          \A s \in Slots : Failed(1, s) => byHour[s] = Arr(<<>>)
    /\ (impl = "batch" /\ phase[1] = "finished" /\ ~cancelled[1]) => loading = FALSE

\* The step half of C8: a step of a failed slot changes neither error nor
\* byHour.
FailureSwallowedStep ==
    \A s \in Slots :
        (slot'[1][s] # slot[1][s] /\ ~slot'[1][s].ok)
            => UNCHANGED <<error, byHour>>

\* C8: a failure of one slot (HTTP status, network error, decode error) is
\* swallowed: its slot stays the empty list, error stays "", no other slot
\* changes, and the failure counts as a settlement.  Both versions.
C8_SlotFailureSwallowed ==
    /\ []FailureSwallowedInv
    /\ [][FailureSwallowedStep]_vars

\* A complete cycle with a failed slot of each kind beside a populated one.
C8_Witness ==
    /\ Active(1)
    /\ loading = FALSE
    /\ error = ""
    /\ \E s \in Slots : Failed(1, s) /\ slot[1][s].err.kind = "http"
                        /\ byHour[s] = Arr(<<>>)
    /\ \E s \in Slots : Failed(1, s) /\ slot[1][s].err.kind # "http"
    /\ \E s \in Slots : Succeeded(1, s) /\ byHour[s] # Arr(<<>>)

\* C9: an error thrown while the effect sets the cycle up, before any fetch
\* is dispatched, is surfaced as a non-empty error string and ends loading.
C9_SetupFailureSurfaced ==
    \A c \in Cycles : phase[c] = "threw" => (error # "" /\ loading = FALSE)

\* C10: every Point in byHour is within its ranges: latitude in [-90, 90],
\* longitude in [-180, 180], altitude null or in [0, 40].
C10_PointsInRange ==
    \A k \in 1..Len(byHour) :
        IsArray(byHour[k]) =>
            \A j \in 1..Len(byHour[k].a) : ValidPoint(byHour[k].a[j])

\* A slot holds the two valid rows of a payload that also had invalid ones,
\* the second with its out-of-range altitude nulled.
C10_Witness ==
    \E k \in 1..Len(byHour) :
        byHour[k] = Arr(<<Point(45, -122, Num(5)), Point(45, -122, Null)>>)

\* parseRow has run on raw.
Parsed == parsePc \in {"parsed", "reparsed"}

\* The raw records C11 speaks of: not an array, fewer than 2 elements, a
\* first or second element that is not a number, or a latitude or longitude
\* out of range.
MustReject(r) ==
    \/ ~IsArray(r)
    \/ Len(r.a) < 2
    \/ r.a[1].t # "number"
    \/ r.a[2].t # "number"
    \/ r.a[1].v < -90 \/ r.a[1].v > 90
    \/ r.a[2].v < -180 \/ r.a[2].v > 180

\* C11: parseRow gives a result for every raw record (it never throws) and
\* rejects every record that is not an array, has fewer than 2 elements, has
\* a non-numeric first or second element, or has a latitude outside
\* [-90, 90] or a longitude outside [-180, 180]; nothing is clamped.
C11_RejectsInvalidRows ==
    Parsed =>
        /\ point \in {Rejected, Point(point.lat, point.lon, point.alt_km)}
        /\ MustReject(raw) => point = Rejected

\* A latitude just out of range, and a longitude just out of range, rejected.
C11_Witness ==
    /\ Parsed
    /\ raw \in {Arr(<<Num(91), Num(0)>>), Arr(<<Num(0), Num(-181), Num(40)>>)}
    /\ point = Rejected

\* The altitude parseRow gives for the third element of an accepted row.
AltitudeOf(r) ==
    IF Len(r.a) >= 3 /\ r.a[3].t = "number" /\ r.a[3].v >= 0 /\ r.a[3].v <= 40
    THEN r.a[3] ELSE Null

\* C12: for a raw record with numeric latitude and longitude within range,
\* parseRow gives the Point with those latitude and longitude, and with the
\* third element as altitude when it is a number in [0, 40], null altitude
\* otherwise; a bad altitude never rejects the row.
C12_AcceptsWithLenientAltitude ==
    (Parsed /\ ~MustReject(raw)) =>
        point = Point(raw.a[1].v, raw.a[2].v, AltitudeOf(raw))

\* Rows kept with their altitude nulled: out of range, and not a number.
C12_Witness ==
    /\ Parsed
    /\ raw \in {Arr(<<Num(90), Num(-180), Num(41)>>), Arr(<<Num(0), Num(0), Str(1)>>)}
    /\ point.ok
    /\ point.alt_km = Null

\* C13 as claimed: parseRow applied to the Point it gave yields that Point.
C13_IdempotentOnOwnOutput ==
    (parsePc = "reparsed" /\ again.how = "self") => again.res = point

\* C13, amended: parseRow applied to the row [lat, lon, alt_km] rebuilt from
\* the Point it gave yields that Point; applied to the Point itself, an
\* object and not an array, it rejects.
C13_RowRoundTrip ==
    parsePc = "reparsed" =>
        /\ again.how = "row" => again.res = point
        /\ again.how = "self" => again.res = Rejected

\* A Point with an altitude, parsed again from its rebuilt row.
C13_Witness ==
    /\ parsePc = "reparsed"
    /\ again.how = "row"
    /\ point.alt_km # Null
    /\ point.lat # point.lon
    /\ again.res = point

-----------------------------------------------------------------------------
(* fetchHour                                                               *)

\* The rows of a snapshot that parseRow keeps, in their order in the snapshot
Surviving(rows) ==
    LET parsed == [i \in 1..Len(rows) |-> ParseRow(rows[i])]
        kept(p) == p.ok
    IN  SelectSeq(parsed, kept)

\* The decoded body is an object whose `points` field is an array
HasPointsArray(data) ==
    data.t = "object" /\ Len(data.a) = 1 /\ data.a[1].t = "array"

\* C14: fetchHour classifies the answer of the network. A status outside
\* 200..299 gives a failure that carries the hour label and the status; a
\* status in 200..299 with a body decoding to an array, or to an object whose
\* `points` is an array, gives the rows parseRow keeps, in their order; a
\* status in 200..299 with a body decoding to anything else gives the empty
\* list and no failure.
C14_FetchHourClassifies ==
    (fhPc = "settled" /\ fhRes.net) =>
        LET st == fhRes.status
            success == st >= 200 /\ st <= 299
            data == fhRes.data
        IN  /\ ~success =>
                /\ ~fhOut.ok
                /\ fhOut.err.kind = "http"
                /\ fhOut.err.hh = HOURS[fhSlot]
                /\ Len(fhOut.err.hh) = 2
                /\ fhOut.err.status = st
            /\ (success /\ fhRes.json /\ data.t = "array") =>
                fhOut.ok /\ fhOut.points = Surviving(data.a)
            /\ (success /\ fhRes.json /\ HasPointsArray(data)) =>
                fhOut.ok /\ fhOut.points = Surviving(data.a[1].a)
            /\ (success /\ fhRes.json /\ data.t # "array" /\ ~HasPointsArray(data)) =>
                fhOut.ok /\ fhOut.points = <<>>

\* Hour "01" answers 299 with a snapshot under `points` of which parseRow
\* keeps three rows
C14_Witness ==
    /\ fhPc = "settled"
    /\ fhSlot = 2
    /\ fhRes.net /\ fhRes.status = 299 /\ fhRes.json
    /\ fhRes.data = ObjPoints(Arr(RowsB))
    /\ Len(fhOut.points) = 3
    /\ fhOut.points[1] = Point(-90, 180, Num(0))
    /\ fhOut.points[3] = Point(1, 2, Null)

-----------------------------------------------------------------------------
(* The requests of one cycle                                               *)

\* HOURS.length in the program
HourCount == 24

\* The two decimal digits of i, for i below 100
TwoDigits(i) == <<i \div 10, i % 10>>

\* How many times the address u was requested in the sequence reqs
TimesRequested(reqs, u) == Cardinality({i \in DOMAIN reqs : reqs[i] = u})

\* C15: in one cycle every slot is requested exactly once, at the address
\* made of the base path and its own two-digit zero-padded label, distinct
\* slots at distinct addresses, and no slot is requested again after its
\* request failed.  The labels of all 24 hours have two digits.
C15_OneRequestPerSlot ==
    /\ \A i \in 0..(HourCount - 1) : PadStart2(ToDigits(i)) = TwoDigits(i)
    /\ \A c \in Cycles :
        IF phase[c] \in {"idle", "threw"}
        THEN requests[c] = <<>>
        ELSE /\ Len(requests[c]) = NumHours
             /\ \A s \in Slots :
                    TimesRequested(requests[c],
                        [base |-> "/api/wb/treasure/", hh |-> TwoDigits(s - 1),
                         ext |-> ".json"]) = 1
             /\ \A i, j \in DOMAIN requests[c] :
                    i # j => requests[c][i] # requests[c][j]

\* The request of a slot failed, its handlers have run, and the cycle holds
\* one request for every slot
C15_Witness ==
    /\ \E s \in Slots : Failed(1, s) /\ slot[1][s].pc = "done"
    /\ Len(requests[1]) = NumHours

-----------------------------------------------------------------------------
(* The reset on cycle start                                                *)

\* Cycle c starts in this step
Starts(c) == phase[c] = "idle" /\ phase'[c] = "running"

\* The state right after a start of cycle c: every hour holds an empty list,
\* nothing is completed, and no fetch of the cycle has settled
ResetFor(c) ==
    /\ Len(byHour') = NumHours
    /\ \A k \in 1..NumHours : byHour'[k].t = "array" /\ byHour'[k].a = <<>>
    /\ completed'[c] = 0
    /\ progress'.num = 0 /\ progress'.den # 0
    /\ loading' = TRUE
    /\ error' = ""
    /\ \A s \in Slots : slot'[c][s].pc = "pending"

\* A fetch of cycle c can settle only after the cycle has started
SettlesAfterStart ==
    \A c \in Cycles : \A s \in Slots :
        slot[c][s].pc # "idle" => Dispatched(c)

\* C16: the step that starts a cycle of the progressive hook leaves 24 empty
\* slots, completed = 0, progress = 0, loading = true and error = "", with
\* every fetch of the cycle still pending, whatever the state before the
\* step was; no fetch of a cycle settles before that step.
C16_ResetOnCycleStart ==
    /\ []SettlesAfterStart
    /\ [][\A c \in Cycles : (impl = "progressive" /\ Starts(c)) => ResetFor(c)]_vars

\* The second cycle has just started after the first one ran to its end:
\* the first cycle completed every hour, which ended loading and filled
\* byHour, and now the hours are empty and loading is on again
C16_Witness ==
    /\ impl = "progressive"
    /\ completed[1] = NumHours
    /\ \E s \in Slots : slot[1][s].pc = "done" /\ slot[1][s].points # <<>>
    /\ phase[2] = "running"
    /\ \A s \in Slots : slot[2][s].pc = "pending"
    /\ byHour = EmptyHours
    /\ loading

-----------------------------------------------------------------------------
(* The proxy handlers                                                      *)

\* The header name is set to value in the response res
HasHeader(res, name, value) ==
    name \in DOMAIN res.headers /\ res.headers[name] = value

\* C17: the path-based handler answers a request with method OPTIONS with
\* status 204, an empty body and the CORS headers, without calling the
\* upstream; a request with any other method calls the upstream exactly
\* once.
C17_OptionsShortCircuit ==
    /\ pxA.pc = "start" => pxA.calls = <<>>
    /\ (pxA.pc # "start" /\ pxReq.method = "OPTIONS") =>
            /\ pxA.pc = "done"
            /\ pxA.res.ended
            /\ pxA.res.status = 204
            /\ pxA.res.body = <<>>
            /\ HasHeader(pxA.res, "Access-Control-Allow-Origin", "*")
            /\ HasHeader(pxA.res, "Access-Control-Allow-Methods", "GET, OPTIONS")
            /\ HasHeader(pxA.res, "Access-Control-Allow-Headers", "Content-Type")
            /\ pxA.calls = <<>>
    /\ (pxA.pc # "start" /\ pxReq.method # "OPTIONS") => Len(pxA.calls) = 1

\* An OPTIONS request was answered while the upstream would have answered 500
C17_Witness ==
    /\ pxReq.method = "OPTIONS"
    /\ pxA.pc = "done"
    /\ pxUp.net /\ pxUp.status = 500
    /\ pxA.res.status = 204

\* The response res relays the upstream answer up: its status, its body and
\* its content-type, or application/json when it has none
Relays(res, up) ==
    /\ res.ended
    /\ res.status = up.status
    /\ res.body = up.body
    /\ "Content-Type" \in DOMAIN res.headers
    /\ res.headers["Content-Type"] =
            IF "content-type" \in DOMAIN up.headers
            THEN up.headers["content-type"] ELSE "application/json"

\* C18: whenever a handler has forwarded a request and answered it, its
\* response has the status and the body of the upstream answer, error status
\* or not, and the upstream content-type, or application/json without one.
C18_RelaysStatusAndBody ==
    /\ (pxA.pc = "done" /\ pxReq.method # "OPTIONS") => Relays(pxA.res, pxUp)
    /\ pxB.pc = "done" => Relays(pxB.res, pxUp)
    /\ (pxA.pc = "reading" /\ pxUp.net) => pxA.res.status = pxUp.status

\* Both handlers relayed a 404 without content-type and with a body
C18_Witness ==
    /\ pxA.pc = "done" /\ pxB.pc = "done"
    /\ pxReq.method = "GET"
    /\ pxUp.status = 404 /\ pxUp.headers = NoHeaders /\ pxUp.body = <<91, 93>>
    /\ pxA.res.status = 404 /\ pxB.res.status = 404
    /\ pxA.res.body = <<91, 93>> /\ pxB.res.body = <<91, 93>>
    /\ pxA.res.headers["Content-Type"] = "application/json"

\* The headers both handlers promise
HeaderPolicy(res) ==
    /\ HasHeader(res, "Access-Control-Allow-Origin", "*")
    /\ HasHeader(res, "Cache-Control",
                 "max-age=0, s-maxage=60, stale-while-revalidate=300")
    /\ HasHeader(res, "CDN-Cache-Control",
                 "max-age=0, s-maxage=60, stale-while-revalidate=300")

\* C19: for a request with a method other than OPTIONS and the same upstream
\* answer, the two handlers give the same status and the same headers:
\* Content-Type, Access-Control-Allow-Origin: * and the two cache headers
\* with the value "max-age=0, s-maxage=60, stale-while-revalidate=300".  On
\* OPTIONS only the path-based handler answers by itself; the query-based
\* one relays as for any other method.
C19_SameHeaderPolicy ==
    /\ (pxA.pc = "done" /\ pxB.pc = "done" /\ pxReq.method # "OPTIONS") =>
            /\ pxA.res.status = pxB.res.status
            /\ pxA.res.headers = pxB.res.headers
            /\ HeaderPolicy(pxA.res)
            /\ HeaderPolicy(pxB.res)
    /\ (pxB.pc = "done" /\ pxReq.method = "OPTIONS") =>
            /\ pxB.res.status = pxUp.status
            /\ HeaderPolicy(pxB.res)
            /\ Len(pxB.calls) = 1

\* Both handlers answered a POST that the upstream answered with 500 and
\* text/html
C19_Witness ==
    /\ pxA.pc = "done" /\ pxB.pc = "done"
    /\ pxReq.method = "POST"
    /\ pxUp.status = 500
    /\ HasHeader(pxA.res, "Content-Type", "text/html")
    /\ HasHeader(pxB.res, "Content-Type", "text/html")

-----------------------------------------------------------------------------
(* The wind query                                                          *)

\* The displayed wind state
wxState == <<wx, wxErr, wxLoading>>

\* Run i of the wind effect settles in this step
SettlesNow(i) ==
    i \in DOMAIN wq /\ wq[i].pc = "inflight" /\ wq'[i].pc = "settled"

\* Every run but the last is cancelled, and a run that is not cancelled is
\* the query of the selected point
OnlyLatestLive ==
    \A i \in DOMAIN wq :
        /\ i < Len(wq) => wq[i].cancelled
        /\ ~wq[i].cancelled => wq[i].pt = selected

\* The wind data shown is what some settled run asked for
WxFromOwnQuery ==
    wx.set => \E i \in DOMAIN wq : wq[i].pt = wx.pt /\ wq[i].pc = "settled"

\* C20: a new selection cancels the wind query of the previous selection, so
\* the settlement of that query, with data or with an error, changes none of
\* wx, wxErr and wxLoading; a settlement that changes one of them is the
\* settlement of the query of the selected point, which is the latest.
C20_WindSingleFlight ==
    /\ [](OnlyLatestLive /\ WxFromOwnQuery)
    /\ [][\A i \in DOMAIN wq :
            SettlesNow(i) =>
                /\ wq[i].cancelled => wxState' = wxState
                /\ (i < Len(wq) \/ wq[i].pt # selected) => wxState' = wxState
                /\ wxState' # wxState =>
                        /\ i = Len(wq)
                        /\ wq[i].pt = selected
                        /\ wx' # wx => wx' = [set |-> TRUE, pt |-> selected]]_vars

\* The query of an earlier selection settled after the next point was
\* selected, while that point's query was still in flight and loading
C20_Witness ==
    /\ Len(wq) >= 2
    /\ wq[1].cancelled /\ wq[1].pc = "settled"
    /\ wq[2].pc = "inflight" /\ ~wq[2].cancelled
    /\ wq[1].pt # wq[2].pt
    /\ selected = wq[2].pt
    /\ wxLoading = TRUE
    /\ wx = NoWx

-----------------------------------------------------------------------------
(* The copy-on-write update of byHour                                      *)

\* The slot written in this step
WrittenNow(s) == s \notin applied /\ s \in applied'

\* C21: applying the result of slot s gives a new collection of 24 entries
\* that differs from the previous one at index s at most, where it holds
\* the result; no array that existed before the step, the one the rendering
\* layer holds included, is changed by it.
C21_CopyOnWrite ==
    [][\A s \in Slots :
        WrittenNow(s) =>
            /\ cur' \notin DOMAIN heap
            /\ cur' \in DOMAIN heap'
            /\ Len(heap'[cur']) = NumHours
            /\ \A k \in Slots : k # s => heap'[cur'][k] = heap[cur][k]
            /\ \E points \in CowPoints : heap'[cur'][s] = Arr(points)
            /\ \A r \in DOMAIN heap : heap'[r] = heap[r]
            /\ heap'[held'] = heap[held]]_vars

\* Two slots were written since the last render: the rendering layer holds
\* an array that differs from the current one at both
C21_Witness ==
    /\ Cardinality(applied) = 2
    /\ held # cur
    /\ \A s \in applied : heap[cur][s].a # <<>> /\ heap[held][s].a = <<>>
    /\ \A s \in Slots \ applied : heap[cur][s] = heap[held][s]

-----------------------------------------------------------------------------
(* Write before count                                                      *)

\* byHour holds the points of slot s of cycle c
Applied(c, s) == s <= Len(byHour) /\ byHour[s] = Arr(slot[c][s].points)

\* The completion of slot s of cycle c is counted in this step
CountedNow(c, s) ==
    /\ completed'[c] = completed[c] + 1
    /\ slot[c][s].pc # "done"
    /\ slot'[c][s].pc = "done"

\* C22: in the progressive version the completion of a successful slot is
\* counted only after its then handler has written its points, so whenever
\* loading is false every successful slot's points are in byHour.
C22_WriteBeforeCount ==
    /\ []((impl = "progressive" /\ loading = FALSE) =>
            \A s \in Slots : Succeeded(1, s) => Applied(1, s))
    /\ [][impl = "progressive" =>
            \A c \in Cycles : \A s \in Slots :
                (CountedNow(c, s) /\ slot[c][s].ok) =>
                    slot[c][s].pc = "thenDone" /\ Applied(c, s)]_vars

\* Loading has ended with a slot that failed and a slot whose points are shown
C22_Witness ==
    /\ impl = "progressive"
    /\ loading = FALSE
    /\ \E s \in Slots : Failed(1, s)
    /\ \E s \in Slots : Succeeded(1, s) /\ slot[1][s].points # <<>> /\ Applied(1, s)

-----------------------------------------------------------------------------
(* The two versions give the same result                                   *)

\* What the hook returns to the component, progress apart
Result == [byHour |-> byHour, loading |-> loading, error |-> error]

\* The outcome of the fetch of slot s: its points, or a failure
Outcome(s) == IF slot[1][s].ok THEN <<"points", slot[1][s].points>> ELSE <<"failure">>

\* The result that belongs to an assignment of outcomes to the slots
ResultOf(outcomes) ==
    [byHour |-> [s \in Slots |->
                    IF outcomes[s][1] = "points" THEN Arr(outcomes[s][2]) ELSE Arr(<<>>)],
     loading |-> FALSE,
     error |-> ""]

\* Every handler of the cycle has run, whichever version runs
AllHandlersRan ==
    /\ \A s \in Slots : slot[1][s].pc = "done"
    /\ impl = "batch" => phase[1] = "finished"

\* C23: once every handler of an uncancelled cycle has run, byHour, loading
\* and error are a function of the outcomes of the fetches alone: the same
\* for the progressive and for the batch version, in whatever order the
\* fetches settled.
C23_SameFinalResult ==
    (AllHandlersRan /\ ~cancelled[1]) => Result = ResultOf([s \in Slots |-> Outcome(s)])

\* The batch version has finished a cycle in which a fetch failed and another
\* brought points
C23_Witness ==
    /\ impl = "batch"
    /\ AllHandlersRan /\ ~cancelled[1]
    /\ \E s \in Slots : Outcome(s) = <<"failure">> /\ byHour[s] = Arr(<<>>)
    /\ \E s \in Slots : Outcome(s)[1] = "points" /\ byHour[s].a # <<>>

-----------------------------------------------------------------------------
(* Overlapping cycles                                                      *)

\* A handler or a settlement of cycle c runs in this step
StepOf(c) == slot'[c] # slot[c] /\ phase'[c] = phase[c]

\* What byHour holds for slot s while cycle c is the running one: the points
\* of the cycle's own fetch once its then handler has run, nothing before
OwnEntry(c, s) ==
    IF slot[c][s].ok /\ slot[c][s].pc \in {"thenDone", "done"}
    THEN Arr(slot[c][s].points) ELSE Arr(<<>>)

\* The state of the hook belongs to cycle c alone
OwnedBy(c) ==
    /\ byHour = [s \in Slots |-> OwnEntry(c, s)]
    /\ completed[c] = Cardinality(DoneSlots(c))
    /\ progress.num * NumHours = completed[c] * progress.den
    /\ loading = FALSE <=> \A s \in Slots : slot[c][s].pc = "done"
    /\ error = ""

\* C24: when the effect has run, was cleaned up and has run again, the
\* handlers of the first cycle change nothing of byHour, progress, loading
\* and the second cycle's counter, whenever they run; the state belongs to
\* the second cycle alone, and loading is false exactly when the handlers of
\* all its own fetches have run.
C24_CyclesIsolated ==
    /\ [](Active(2) => cancelled[1] /\ OwnedBy(2))
    /\ [][(phase[2] = "running" /\ StepOf(1)) =>
            /\ byHour' = byHour
            /\ progress' = progress
            /\ loading' = loading
            /\ completed' = completed]_vars

\* The second cycle has ended loading while a fetch of the first is still
\* pending and another of the first has run its handlers uncounted
C24_Witness ==
    /\ Active(2)
    /\ loading = FALSE
    /\ completed[2] = NumHours
    /\ completed[1] = 0
    /\ \E s \in Slots : slot[1][s].pc = "pending"
    /\ \E s \in Slots : slot[1][s].pc = "done" /\ slot[1][s].ok

-----------------------------------------------------------------------------
(* The wind panel                                                          *)

\* The panel shows wind data: wx && !wxLoading && !wxErr under `selected`
WindShown == selected # "null" /\ wx.set /\ ~wxLoading /\ wxErr = ""

\* C25: whenever the panel shows wind data, the data is the result of the
\* query for the selected point, never that of a point selected before.
C25_WindPanelConsistent == WindShown => wx.pt = selected

-----------------------------------------------------------------------------
(* The header                                                              *)

\* Boolean(x) as Array.prototype.filter applies it: undefined, null, 0 and
\* "" are falsy; every array and every object is truthy, the empty array too
ToBoolean(x) ==
    CASE x.t = "undefined" -> FALSE
      [] x.t = "null" -> FALSE
      [] x.t = "number" -> x.v # 0
      [] x.t = "string" -> x.v # <<>>
      [] OTHER -> TRUE

\* byHour.filter(Boolean).length, the N of "Loaded N/24 hours"
LoadedHours == Cardinality({k \in 1..Len(byHour) : ToBoolean(byHour[k])})

\* C26: the N of "Loaded N/24 hours" never exceeds the number of slots whose
\* fetch has settled successfully; it is 0 at cycle start and counts neither
\* pending nor failed slots.
C26_LoadedCountsSuccesses ==
    LoadedHours <= Cardinality({s \in Slots : Succeeded(1, s)})

=============================================================================
